---- MODULE Spec2Model ----
(***************************************************************************)
(* The concurrent data-gathering pipeline of brifor:                       *)
(*   search_engine.perform_search, search_engine.gather_data and           *)
(*   scraper.scrape_url, run by one asyncio event loop.                    *)
(* One action is one uninterrupted run of a coroutine between two awaits.  *)
(***************************************************************************)
EXTENDS Integers, Sequences, FiniteSets, TLC

(***************************************************************************)
(* Bounds of the model.                                                    *)
(***************************************************************************)
MaxConcurrency == 2
MaxLimit == 3
MaxNegLimit == 1
MaxHits == 2

(***************************************************************************)
(* Data.                                                                   *)
(***************************************************************************)
Urls == {"u1", "u2", "u3"}
Limits == (0 - MaxNegLimit)..MaxLimit

\* the query lists gather_data is called with
QueryLists ==
    {<<>>, <<"A">>, <<"B">>, <<"A", "B">>, <<"B", "A">>, <<"A", "A">>,
     <<"C">>, <<"C", "C">>}

SeqsUpTo(S, n) == UNION {[1..k -> S] : k \in 0..n}

Range(s) == {s[k] : k \in DOMAIN s}

\* class SearchResult(TypedDict)
SearchResult(title, url, snippet) ==
    [title |-> title, url |-> url, snippet |-> snippet]

\* class ScrapeResult(TypedDict); text is a sequence of tokens, "" is <<>>
ScrapeResult(url, text, status) ==
    [url |-> url, text |-> text, status |-> status]

NoResult == [url |-> "", text |-> <<>>, status |-> "none"]

\* dict.get(key, default)
Get(r, key, default) == IF key \in DOMAIN r THEN r[key] ELSE default

(***************************************************************************)
(* The search backend: what ddgs.text answers for a query.  A record of    *)
(* the answer is a dict that may lack "href"; an item that is no dict at   *)
(* all is written [notdict |-> ...].                                       *)
(***************************************************************************)
RawHit(u) == [title |-> "t", href |-> u, body |-> "s"]
RawNoHref == [title |-> "t", body |-> "s"]
RawNotDict == [notdict |-> "x"]

Provider(q) ==
    IF q = "A" THEN <<RawHit("u1"), RawHit("u2")>>
    ELSE IF q = "B" THEN <<RawHit("u2"), RawNoHref, RawHit("u3")>>
    ELSE <<>>

ProviderAnswers(q) == {Provider(q), <<RawNotDict>>}

\* r.get(...) raises on an item that is not a dict
ConvertRaises(results) == \E k \in DOMAIN results : "notdict" \in DOMAIN results[k]

\* the list comprehension of perform_search
Convert(results) ==
    [k \in DOMAIN results |->
        SearchResult(Get(results[k], "title", ""),
                     Get(results[k], "href", ""),
                     Get(results[k], "body", ""))]

\* except Exception: every error raised inside the try is caught
SearchCatchesOnlyNetwork(kind) == kind \in {"open", "text", "close"}

SearchCatches(kind) == TRUE

(***************************************************************************)
(* Flatten and deduplicate (preserve order), then limit to max_urls.       *)
(***************************************************************************)
RECURSIVE Flatten(_)
Flatten(lists) ==
    IF lists = <<>> THEN <<>>
    ELSE [k \in DOMAIN Head(lists) |-> Head(lists)[k].url] \o Flatten(Tail(lists))

\* if url and url not in seen_urls
KeepEmptyUrl(url, seen_urls) == url \notin seen_urls

KeepNoSeenCheck(url, seen_urls) == url # ""

Keep(url, seen_urls) == url # "" /\ url \notin seen_urls

RECURSIVE DedupLoop(_, _, _)
DedupLoop(urls, seen_urls, unique_urls) ==
    IF urls = <<>> THEN unique_urls
    ELSE IF Keep(Head(urls), seen_urls)
         THEN DedupLoop(Tail(urls), seen_urls \cup {Head(urls)},
                        Append(unique_urls, Head(urls)))
         ELSE DedupLoop(Tail(urls), seen_urls, unique_urls)

Dedup(lists) == DedupLoop(Flatten(lists), {}, <<>>)

\* Python's s[:n]: a negative n counts from the end
SliceEnd(len, n) ==
    IF n >= 0 THEN (IF n < len THEN n ELSE len)
    ELSE (IF len + n > 0 THEN len + n ELSE 0)

TruncateFromSecond(unique_urls, limit) ==
    SubSeq(unique_urls, 2, SliceEnd(Len(unique_urls), limit))

TruncateOneMore(unique_urls, limit) ==
    SubSeq(unique_urls, 1, SliceEnd(Len(unique_urls), limit + 1))

Truncate(unique_urls, limit) ==
    SubSeq(unique_urls, 1, SliceEnd(Len(unique_urls), limit))

(***************************************************************************)
(* Text extraction.  A page is a sequence of tokens: "w" a word of body    *)
(* text, "sp" a run of whitespace, "script" an element that is decomposed. *)
(***************************************************************************)
Htmls == {<<"script", "sp">>, <<"sp", "w", "script", "sp">>}

RECURSIVE JoinWords(_)
JoinWords(words) ==
    IF Len(words) <= 1 THEN words
    ELSE <<Head(words), "sp">> \o JoinWords(Tail(words))

\* _extract_clean_text
ExtractCleanText(html) == JoinWords(SelectSeq(html, LAMBDA t : t = "w"))

(***************************************************************************)
(* asyncio: the future of a gather, and the semaphore.                     *)
(***************************************************************************)
PendingFuture == [state |-> "pending", result |-> <<>>]

AllDone(pcs) == \A k \in DOMAIN pcs : pcs[k] = "done"

\* gather's callback on the completion of one child (return_exceptions=False)
GatherUpdateFirstCompleted(future, raised, alldone, results) ==
    IF future.state # "pending" THEN future
    ELSE IF raised THEN [state |-> "exception", result |-> <<>>]
    ELSE [state |-> "result", result |-> results]

GatherUpdate(future, raised, alldone, results) ==
    IF future.state # "pending" THEN future
    ELSE IF raised THEN [state |-> "exception", result |-> <<>>]
    ELSE IF alldone THEN [state |-> "result", result |-> results]
    ELSE future

\* all_results = await asyncio.gather(*search_tasks): the children's order
AllResultsByCompletion(rets, order) ==
    [k \in DOMAIN rets |-> rets[IF k \in DOMAIN order THEN order[k] ELSE k]]

AllResults(rets, order) == [k \in DOMAIN rets |-> rets[k]]

\* scraped_data = await asyncio.gather(*scrape_tasks): the children's order
ScrapedDataByCompletion(rets, order) ==
    [k \in DOMAIN rets |-> rets[IF k \in DOMAIN order THEN order[k] ELSE k]]

ScrapedDataSuccessesOnly(rets, order) ==
    SelectSeq([k \in DOMAIN rets |-> rets[k]], LAMBDA r : r.status = "success")

ScrapedData(rets, order) == [k \in DOMAIN rets |-> rets[k]]

\* semaphore = asyncio.Semaphore(scrape_concurrency)
SemaphoreInitOneLess(concurrency) == concurrency - 1

SemaphoreInit(concurrency) == concurrency

\* Semaphore.locked(): no permit left, or somebody is already queued
SemLockedNever(value, waiters) == FALSE

SemLocked(value, waiters) == value <= 0 \/ waiters # <<>>

\* scrape_timeout of gather_data, timeout of scrape_url, in time units
scrape_timeout == 2

\* max_chars of _format_sources_for_prompt (2000 in the code), in characters
max_chars == 2

\* the longest list of sources write_brief is called with
MaxSources == 3

(***************************************************************************)
(* State.                                                                  *)
(***************************************************************************)
VARIABLES
    queries, max_urls, scrape_concurrency,     \* arguments of gather_data
    pc,                                        \* where gather_data is
    spc, sexc, sret, sfailed, sorder,          \* the perform_search tasks
    search_future,                             \* gather of the search tasks
    all_results, unique_urls, urls_to_scrape,  \* locals of gather_data
    sem_value, sem_waiters,                    \* semaphore
    ready,                                     \* woken waiters, in the order the loop runs them
    tpc, browser, context, cleaned_text,       \* the scrape_with_limit tasks
    tret, texc,
    timed_out, torder,
    scrape_future,                             \* gather of the scrape tasks
    scraped_data,                              \* the value gather_data returns
    clock,                                     \* elapsed time (timed specification)
    api_key, config_file,                      \* main: OPENROUTER_API_KEY, config.yaml
    mpc, called,                               \* main: where it is, what it has called
    sources_with_tiers,                        \* main: the argument of write_brief
    wpc, valid_sources, formatted_sources,     \* write_brief
    llm, brief

args == <<queries, max_urls, scrape_concurrency>>
svars == <<spc, sexc, sret, sfailed, sorder, search_future>>
dvars == <<all_results, unique_urls, urls_to_scrape>>
semvars == <<sem_value, sem_waiters, ready>>
tvars == <<tpc, browser, context, cleaned_text, tret, texc, timed_out, torder, scrape_future>>
pvars == <<args, pc, svars, dvars, semvars, tvars, scraped_data>>
mvars == <<api_key, config_file, mpc, called, sources_with_tiers>>
wvars == <<wpc, valid_sources, formatted_sources, llm, brief>>
ovars == <<mvars, wvars>>
vars == <<pvars, clock, ovars>>

\* the clock does not run
NoClock == [slot |-> <<>>, await |-> <<>>, stage |-> 0]

NoSearchTasks ==
    /\ spc = <<>> /\ sexc = <<>> /\ sret = <<>> /\ sfailed = <<>> /\ sorder = <<>>
    /\ search_future = PendingFuture

NoScrapeStage ==
    /\ all_results = <<>> /\ unique_urls = <<>> /\ urls_to_scrape = <<>>
    /\ sem_value = 0 /\ sem_waiters = <<>> /\ ready = <<>>
    /\ tpc = <<>> /\ browser = <<>> /\ context = <<>> /\ cleaned_text = <<>> /\ tret = <<>>
    /\ texc = <<>> /\ timed_out = <<>> /\ torder = <<>>
    /\ scrape_future = PendingFuture
    /\ scraped_data = <<>>

\* _format_sources_for_prompt of no source
NoFormattedSources == [empty |-> TRUE, parts |-> <<>>]

\* main is not running, write_brief is not called
NoMain ==
    /\ api_key = "" /\ config_file = "" /\ mpc = "none" /\ called = {}
    /\ sources_with_tiers = <<>>

NoWriter ==
    /\ wpc = "idle" /\ valid_sources = <<>>
    /\ formatted_sources = NoFormattedSources
    /\ llm = "idle" /\ brief = "none"

\* gather_data is called
Init ==
    /\ queries \in QueryLists
    /\ max_urls \in Limits
    /\ scrape_concurrency \in 1..MaxConcurrency
    /\ pc = "start"
    /\ NoSearchTasks
    /\ NoScrapeStage
    /\ clock = NoClock
    /\ NoMain /\ NoWriter

(***************************************************************************)
(* gather_data, from the return of the search gather to the scrape gather. *)
(***************************************************************************)
AfterSearch(results) ==
    LET uniq == Dedup(results)
        urls == Truncate(uniq, max_urls)
        n == Len(urls)
    IN  /\ all_results' = results
        /\ unique_urls' = uniq
        /\ urls_to_scrape' = urls
        /\ sem_value' = SemaphoreInit(scrape_concurrency)
        /\ sem_waiters' = <<>>
        /\ ready' = <<>>
        /\ tpc' = [k \in 1..n |-> "new"]
        /\ browser' = [k \in 1..n |-> "none"]
        /\ context' = [k \in 1..n |-> "none"]
        /\ cleaned_text' = [k \in 1..n |-> <<>>]
        /\ tret' = [k \in 1..n |-> NoResult]
        /\ texc' = [k \in 1..n |-> FALSE]
        /\ timed_out' = [k \in 1..n |-> FALSE]
        /\ torder' = <<>>
        /\ IF n = 0
           THEN /\ scrape_future' = [state |-> "result", result |-> <<>>]
                /\ scraped_data' = <<>>
                /\ pc' = "done"
           ELSE /\ scrape_future' = PendingFuture
                /\ scraped_data' = scraped_data
                /\ pc' = "scrape"

\* lines 65-70 (and to the end when there is no query: gather() of nothing is done)
GatherDataStart ==
    /\ pc = "start"
    /\ IF queries = <<>>
       THEN /\ AfterSearch(<<>>)
            /\ UNCHANGED svars
       ELSE /\ spc' = [k \in DOMAIN queries |-> "open"]
            /\ sexc' = [k \in DOMAIN queries |-> "none"]
            /\ sret' = [k \in DOMAIN queries |-> <<>>]
            /\ sfailed' = [k \in DOMAIN queries |-> FALSE]
            /\ sorder' = <<>>
            /\ search_future' = PendingFuture
            /\ pc' = "search"
            /\ UNCHANGED <<dvars, semvars, tvars, scraped_data>>
    /\ UNCHANGED args

(***************************************************************************)
(* perform_search, task i.                                                 *)
(***************************************************************************)
\* leaving the try block of perform_search with exception kind (or "none")
SearchFinish(i, kind, value) ==
    LET caught == kind = "none" \/ SearchCatches(kind)
        pcs == [spc EXCEPT ![i] = IF caught THEN "done" ELSE "raised"]
        rets == [sret EXCEPT ![i] = IF kind = "none" THEN value ELSE <<>>]
        order == Append(sorder, i)
    IN  /\ spc' = pcs
        /\ sret' = rets
        /\ sorder' = order
        /\ sfailed' = [sfailed EXCEPT ![i] = kind # "none"]
        /\ sexc' = [sexc EXCEPT ![i] = "none"]
        /\ search_future' = GatherUpdate(search_future, ~caught, AllDone(pcs),
                                         AllResults(rets, order))

\* async with aDDGS() as ddgs: entering
SearchOpen(i) ==
    /\ pc = "search" /\ i \in DOMAIN spc /\ spc[i] = "open"
    /\ \E o \in {"ok", "error"} :
        IF o = "ok"
        THEN /\ spc' = [spc EXCEPT ![i] = "text"]
             /\ UNCHANGED <<sexc, sret, sfailed, sorder, search_future>>
        ELSE SearchFinish(i, "open", <<>>)
    /\ UNCHANGED <<args, pc, dvars, semvars, tvars, scraped_data>>

\* results = await ddgs.text(...), then the list comprehension
SearchText(i) ==
    /\ pc = "search" /\ i \in DOMAIN spc /\ spc[i] = "text"
    /\ \/ /\ sexc' = [sexc EXCEPT ![i] = "text"]
          /\ sret' = sret
       \/ \E results \in ProviderAnswers(queries[i]) :
            IF ConvertRaises(results)
            THEN /\ sexc' = [sexc EXCEPT ![i] = "convert"]
                 /\ sret' = sret
            ELSE /\ sret' = [sret EXCEPT ![i] = Convert(results)]
                 /\ sexc' = sexc
    /\ spc' = [spc EXCEPT ![i] = "close"]
    /\ UNCHANGED <<sfailed, sorder, search_future>>
    /\ UNCHANGED <<args, pc, dvars, semvars, tvars, scraped_data>>

\* async with aDDGS(): leaving, then return or except Exception: return []
SearchClose(i) ==
    /\ pc = "search" /\ i \in DOMAIN spc /\ spc[i] = "close"
    /\ \E o \in {"ok", "error"} :
        IF o = "ok"
        THEN SearchFinish(i, sexc[i], sret[i])
        ELSE SearchFinish(i, "close", <<>>)
    /\ UNCHANGED <<args, pc, dvars, semvars, tvars, scraped_data>>

\* gather_data resumes from the search gather: lines 70-94
ResumeAfterSearch ==
    /\ pc = "search"
    /\ search_future.state # "pending"
    /\ IF search_future.state = "exception"
       THEN /\ pc' = "raised"
            /\ UNCHANGED <<dvars, semvars, tvars, scraped_data>>
       ELSE AfterSearch(search_future.result)
    /\ spc' = <<>> /\ sexc' = <<>> /\ sret' = <<>> /\ sfailed' = <<>> /\ sorder' = <<>>
    /\ search_future' = search_future
    /\ UNCHANGED args

(***************************************************************************)
(* scrape_with_limit(urls_to_scrape[i]), task i.                           *)
(***************************************************************************)
\* the awaits of scrape_url that take a timeout raise PlaywrightTimeout
StepOutcomes(step) ==
    IF step \in {"goto", "wait_for_load_state"}
    THEN {"ok", "timeout", "error"}
    ELSE {"ok", "error"}

InScrapeUrl ==
    {"start_driver", "launch", "new_context", "new_page", "goto",
     "wait_for_load_state", "content", "context_close", "browser_close",
     "stop_driver"}

\* Semaphore.release() on leaving "async with semaphore": the permit goes to
\* the first waiter, or back to the semaphore
ReleaseValueAlways(value, waiters) == value + 1
ReleaseValue(value, waiters) == IF waiters = <<>> THEN value + 1 ELSE value

\* Semaphore.release() wakes the first waiter, if there is one (0: nobody)
NextWaiterNone(waiters) == 0
NextWaiterLast(waiters) == IF waiters = <<>> THEN 0 ELSE waiters[Len(waiters)]
NextWaiter(waiters) == IF waiters = <<>> THEN 0 ELSE Head(waiters)

\* scrape_with_limit ends: scrape_url returned outcome, or raised
Finish(i, raised, outcome) ==
    LET w == NextWaiter(sem_waiters)
        pcs == [k \in DOMAIN tpc |->
                   IF k = i THEN (IF raised THEN "raised" ELSE "done")
                   ELSE IF k = w THEN "woken" ELSE tpc[k]]
        rets == [tret EXCEPT ![i] = outcome]
        order == Append(torder, i)
    IN  /\ tpc' = pcs
        /\ tret' = rets
        /\ torder' = order
        /\ sem_value' = ReleaseValue(sem_value, sem_waiters)
        /\ sem_waiters' = IF sem_waiters = <<>> THEN <<>> ELSE Tail(sem_waiters)
        /\ ready' = IF w = 0 THEN ready ELSE Append(ready, w)
        /\ scrape_future' = GatherUpdate(scrape_future, raised, AllDone(pcs),
                                         ScrapedData(rets, order))

\* the task's first step: async with semaphore (tasks start in creation order)
StartTask(i) ==
    /\ pc \in {"scrape", "raised"} /\ i \in DOMAIN tpc /\ tpc[i] = "new"
    /\ \A j \in 1..(i - 1) : tpc[j] # "new"
    /\ IF SemLocked(sem_value, sem_waiters)
       THEN /\ sem_waiters' = Append(sem_waiters, i)
            /\ tpc' = [tpc EXCEPT ![i] = "wait"]
            /\ sem_value' = sem_value
       ELSE /\ sem_value' = sem_value - 1
            /\ tpc' = [tpc EXCEPT ![i] = "start_driver"]
            /\ sem_waiters' = sem_waiters
    /\ ready' = ready
    /\ UNCHANGED <<browser, context, cleaned_text, tret, texc, timed_out, torder, scrape_future>>
    /\ UNCHANGED <<args, pc, svars, dvars, scraped_data>>

\* a waiter that was handed a permit resumes and calls scrape_url (the event
\* loop resumes woken tasks in the order they were woken)
ResumeTask(i) ==
    /\ pc \in {"scrape", "raised"} /\ i \in DOMAIN tpc /\ tpc[i] = "woken"
    /\ ready # <<>> /\ Head(ready) = i
    /\ ready' = Tail(ready)
    /\ tpc' = [tpc EXCEPT ![i] = "start_driver"]
    /\ UNCHANGED <<browser, context, cleaned_text, tret, texc, timed_out, torder, scrape_future>>
    /\ UNCHANGED <<args, pc, svars, dvars, sem_value, sem_waiters, scraped_data>>

\* task i is at the await named step (asyncio.gather does not cancel the other
\* tasks when one raises: they run on after gather_data has raised)
At(i, step) == pc \in {"scrape", "raised"} /\ i \in DOMAIN tpc /\ tpc[i] = step

\* async with async_playwright() as p: entering (outside the try)
StartDriver(i) ==
    /\ At(i, "start_driver")
    /\ \E o \in StepOutcomes("start_driver") :
        IF o = "ok"
        THEN /\ tpc' = [tpc EXCEPT ![i] = "launch"]
             /\ UNCHANGED <<tret, torder, semvars, scrape_future>>
        ELSE Finish(i, TRUE, NoResult)
    /\ UNCHANGED <<browser, context, cleaned_text, texc, timed_out>>
    /\ UNCHANGED <<args, pc, svars, dvars, scraped_data>>

\* return ScrapeResult(url=url, text="", status="error"), in both handlers
ErrorResultWithMessage(url) == ScrapeResult(url, <<"w">>, "error")
ErrorResult(url) == ScrapeResult(url, <<>>, "error")

\* finally: if browser: await browser.close() -- where the handlers go next
AfterExceptNoFinally(b) == "stop_driver"
AfterExceptRetry(b) == "launch"
AfterExcept(b) == IF b = "none" THEN "stop_driver" ELSE "browser_close"

\* except PlaywrightTimeout / except Exception: the error outcome, then finally
\* (a local that is dead from here on is reset)
Except(i, cause) ==
    /\ tret' = [tret EXCEPT ![i] = ErrorResult(urls_to_scrape[i])]
    /\ timed_out' = [timed_out EXCEPT ![i] = cause = "timeout"]
    /\ cleaned_text' = [cleaned_text EXCEPT ![i] = <<>>]
    /\ tpc' = [tpc EXCEPT ![i] = AfterExcept(browser[i])]

\* an await inside the try that keeps no value
TryStep(i, step, next) ==
    /\ At(i, step)
    /\ \E o \in StepOutcomes(step) :
        IF o = "ok"
        THEN /\ tpc' = [tpc EXCEPT ![i] = next]
             /\ UNCHANGED <<tret, timed_out, cleaned_text>>
        ELSE Except(i, o)
    /\ UNCHANGED <<browser, context, texc, torder, scrape_future>>
    /\ UNCHANGED <<args, pc, svars, dvars, semvars, scraped_data>>

\* browser = await p.chromium.launch(headless=True)
Launch(i) ==
    /\ At(i, "launch")
    /\ \E o \in StepOutcomes("launch") :
        IF o = "ok"
        THEN /\ tpc' = [tpc EXCEPT ![i] = "new_context"]
             /\ browser' = [browser EXCEPT ![i] = "open"]
             /\ UNCHANGED <<tret, timed_out, cleaned_text>>
        ELSE /\ Except(i, o)
             /\ browser' = browser
    /\ UNCHANGED <<context, texc, torder, scrape_future>>
    /\ UNCHANGED <<args, pc, svars, dvars, semvars, scraped_data>>

\* context = await browser.new_context(...)
NewContext(i) ==
    /\ At(i, "new_context")
    /\ \E o \in StepOutcomes("new_context") :
        IF o = "ok"
        THEN /\ tpc' = [tpc EXCEPT ![i] = "new_page"]
             /\ context' = [context EXCEPT ![i] = "open"]
             /\ UNCHANGED <<tret, timed_out, cleaned_text>>
        ELSE /\ Except(i, o)
             /\ context' = context
    /\ UNCHANGED <<browser, texc, torder, scrape_future>>
    /\ UNCHANGED <<args, pc, svars, dvars, semvars, scraped_data>>

\* page = await context.new_page()
NewPage(i) == TryStep(i, "new_page", "goto")

\* await page.goto(url, timeout=timeout * 1000)
Goto(i) == TryStep(i, "goto", "wait_for_load_state")

\* await page.wait_for_load_state("networkidle", timeout=timeout * 1000)
WaitForLoadState(i) == TryStep(i, "wait_for_load_state", "content")

\* body_html = await page.content(); cleaned_text = _extract_clean_text(body_html)
Content(i) ==
    /\ At(i, "content")
    /\ \E o \in StepOutcomes("content") :
        IF o = "ok"
        THEN /\ \E body_html \in Htmls :
                  cleaned_text' = [cleaned_text EXCEPT ![i] = ExtractCleanText(body_html)]
             /\ tpc' = [tpc EXCEPT ![i] = "context_close"]
             /\ UNCHANGED <<tret, timed_out>>
        ELSE Except(i, o)
    /\ UNCHANGED <<browser, context, texc, torder, scrape_future>>
    /\ UNCHANGED <<args, pc, svars, dvars, semvars, scraped_data>>

\* await context.close(); return ScrapeResult(url, cleaned_text, "success")
ContextClose(i) ==
    /\ At(i, "context_close")
    /\ \E o \in StepOutcomes("context_close") :
        IF o = "ok"
        THEN /\ tret' = [tret EXCEPT ![i] =
                            ScrapeResult(urls_to_scrape[i], cleaned_text[i], "success")]
             /\ cleaned_text' = [cleaned_text EXCEPT ![i] = <<>>]
             /\ tpc' = [tpc EXCEPT ![i] = "browser_close"]
             /\ context' = [context EXCEPT ![i] = "closed"]
             /\ timed_out' = timed_out
        ELSE /\ Except(i, o)
             /\ context' = context
    /\ UNCHANGED <<browser, texc, torder, scrape_future>>
    /\ UNCHANGED <<args, pc, svars, dvars, semvars, scraped_data>>

\* finally: if browser: await browser.close()
\* (closing the browser closes its contexts; an error raised here replaces the
\* pending return, and the browser is then not known to be closed)
BrowserClose(i) ==
    /\ At(i, "browser_close")
    /\ \E o \in StepOutcomes("browser_close") :
        IF o = "ok"
        THEN /\ browser' = [browser EXCEPT ![i] = "closed"]
             /\ context' = [context EXCEPT ![i] =
                                IF @ = "open" THEN "closed" ELSE @]
             /\ UNCHANGED <<texc, tret>>
        ELSE /\ texc' = [texc EXCEPT ![i] = TRUE]
             /\ tret' = [tret EXCEPT ![i] = NoResult]
             /\ browser' = [browser EXCEPT ![i] = "close_failed"]
             /\ context' = context
    /\ tpc' = [tpc EXCEPT ![i] = "stop_driver"]
    /\ UNCHANGED <<cleaned_text, timed_out, torder, scrape_future>>
    /\ UNCHANGED <<args, pc, svars, dvars, semvars, scraped_data>>

\* async with async_playwright(): leaving; scrape_url returns or raises, and
\* scrape_with_limit leaves "async with semaphore"
StopDriver(i) ==
    /\ At(i, "stop_driver")
    /\ \E o \in StepOutcomes("stop_driver") :
        IF o = "ok" /\ ~texc[i]
        THEN Finish(i, FALSE, tret[i])
        ELSE Finish(i, TRUE, NoResult)
    /\ texc' = [texc EXCEPT ![i] = FALSE]
    /\ UNCHANGED <<browser, context, cleaned_text, timed_out>>
    /\ UNCHANGED <<args, pc, svars, dvars, scraped_data>>

\* gather_data resumes from the scrape gather: lines 94-96
ResumeAfterScrape ==
    /\ pc = "scrape"
    /\ scrape_future.state # "pending"
    /\ IF scrape_future.state = "exception"
       THEN /\ pc' = "raised"
            /\ scraped_data' = scraped_data
       ELSE /\ pc' = "done"
            /\ scraped_data' = scrape_future.result
    /\ UNCHANGED <<args, svars, dvars, semvars, tvars>>

Next ==
    \/ GatherDataStart /\ UNCHANGED <<clock, ovars>>
    \/ \E i \in DOMAIN spc : SearchOpen(i) /\ UNCHANGED <<clock, ovars>>
    \/ \E i \in DOMAIN spc : SearchText(i) /\ UNCHANGED <<clock, ovars>>
    \/ \E i \in DOMAIN spc : SearchClose(i) /\ UNCHANGED <<clock, ovars>>
    \/ ResumeAfterSearch /\ UNCHANGED <<clock, ovars>>
    \/ \E i \in DOMAIN tpc : StartTask(i) /\ UNCHANGED <<clock, ovars>>
    \/ \E i \in DOMAIN tpc : ResumeTask(i) /\ UNCHANGED <<clock, ovars>>
    \/ \E i \in DOMAIN tpc : StartDriver(i) /\ UNCHANGED <<clock, ovars>>
    \/ \E i \in DOMAIN tpc : Launch(i) /\ UNCHANGED <<clock, ovars>>
    \/ \E i \in DOMAIN tpc : NewContext(i) /\ UNCHANGED <<clock, ovars>>
    \/ \E i \in DOMAIN tpc : NewPage(i) /\ UNCHANGED <<clock, ovars>>
    \/ \E i \in DOMAIN tpc : Goto(i) /\ UNCHANGED <<clock, ovars>>
    \/ \E i \in DOMAIN tpc : WaitForLoadState(i) /\ UNCHANGED <<clock, ovars>>
    \/ \E i \in DOMAIN tpc : Content(i) /\ UNCHANGED <<clock, ovars>>
    \/ \E i \in DOMAIN tpc : ContextClose(i) /\ UNCHANGED <<clock, ovars>>
    \/ \E i \in DOMAIN tpc : BrowserClose(i) /\ UNCHANGED <<clock, ovars>>
    \/ \E i \in DOMAIN tpc : StopDriver(i) /\ UNCHANGED <<clock, ovars>>
    \/ ResumeAfterScrape /\ UNCHANGED <<clock, ovars>>

Spec == Init /\ [][Next]_vars

\* The event loop runs a ready task whenever there is one, and every await on
\* the provider or the browser ends (with a value or an exception).
\* (No query, one query or two queries; the limits are those that keep one URL
\* and that keep every URL.)
InitLive ==
    /\ Init
    /\ queries \in {<<>>, <<"A">>, <<"A", "B">>}
    /\ max_urls \in {1, MaxLimit}

SpecLive == InitLive /\ [][Next]_vars /\ WF_vars(Next)

(***************************************************************************)
(* gather_data with discrete time.  Only the two awaits that are given a   *)
(* timeout take time here (page.goto and page.wait_for_load_state, each    *)
(* with its own timeout=timeout * 1000); every other step is immediate.    *)
(* clock.slot[i] is the time task i has held its permit, clock.await[i]    *)
(* the time it has spent in its current await, clock.stage the time since  *)
(* the scrape tasks were created.                                          *)
(***************************************************************************)
TimedAwaits == {"goto", "wait_for_load_state"}

InitTimed ==
    /\ Init
    /\ queries = <<"A">>
    /\ max_urls = MaxLimit

\* the scrape tasks are created (or not yet): all clocks at zero
ClockStarts ==
    clock' = [slot |-> [k \in DOMAIN tpc' |-> 0],
              await |-> [k \in DOMAIN tpc' |-> 0],
              stage |-> 0]

\* a step of task i: PlaywrightTimeout is raised when the await has lasted
\* scrape_timeout, and the next await starts at zero
TaskClock(i) ==
    /\ (timed_out'[i] /\ ~timed_out[i]) => clock.await[i] = scrape_timeout
    /\ clock' = [clock EXCEPT !.await[i] = 0]

\* one time unit passes: no task has an immediate step to take, and no timed
\* await is at its timeout
Tick ==
    /\ pc \in {"scrape", "raised"}
    /\ \E i \in DOMAIN tpc : tpc[i] \in InScrapeUrl
    /\ \A i \in DOMAIN tpc :
          \/ tpc[i] \in {"wait", "done", "raised"}
          \/ tpc[i] \in TimedAwaits /\ clock.await[i] < scrape_timeout
    /\ clock' = [slot |-> [k \in DOMAIN tpc |->
                              IF tpc[k] \in InScrapeUrl THEN clock.slot[k] + 1
                              ELSE clock.slot[k]],
                 await |-> [k \in DOMAIN tpc |->
                               IF tpc[k] \in InScrapeUrl THEN clock.await[k] + 1
                               ELSE clock.await[k]],
                 stage |-> clock.stage + 1]
    /\ UNCHANGED <<pvars, ovars>>

NextTimed ==
    \/ GatherDataStart /\ ClockStarts /\ UNCHANGED ovars
    \/ \E i \in DOMAIN spc : SearchOpen(i) /\ UNCHANGED clock /\ UNCHANGED ovars
    \/ \E i \in DOMAIN spc : SearchText(i) /\ UNCHANGED clock /\ UNCHANGED ovars
    \/ \E i \in DOMAIN spc : SearchClose(i) /\ UNCHANGED clock /\ UNCHANGED ovars
    \/ ResumeAfterSearch /\ ClockStarts /\ UNCHANGED ovars
    \/ \E i \in DOMAIN tpc : StartTask(i) /\ TaskClock(i) /\ UNCHANGED ovars
    \/ \E i \in DOMAIN tpc : ResumeTask(i) /\ TaskClock(i) /\ UNCHANGED ovars
    \/ \E i \in DOMAIN tpc : StartDriver(i) /\ TaskClock(i) /\ UNCHANGED ovars
    \/ \E i \in DOMAIN tpc : Launch(i) /\ TaskClock(i) /\ UNCHANGED ovars
    \/ \E i \in DOMAIN tpc : NewContext(i) /\ TaskClock(i) /\ UNCHANGED ovars
    \/ \E i \in DOMAIN tpc : NewPage(i) /\ TaskClock(i) /\ UNCHANGED ovars
    \/ \E i \in DOMAIN tpc : Goto(i) /\ TaskClock(i) /\ UNCHANGED ovars
    \/ \E i \in DOMAIN tpc : WaitForLoadState(i) /\ TaskClock(i) /\ UNCHANGED ovars
    \/ \E i \in DOMAIN tpc : Content(i) /\ TaskClock(i) /\ UNCHANGED ovars
    \/ \E i \in DOMAIN tpc : ContextClose(i) /\ TaskClock(i) /\ UNCHANGED ovars
    \/ \E i \in DOMAIN tpc : BrowserClose(i) /\ TaskClock(i) /\ UNCHANGED ovars
    \/ \E i \in DOMAIN tpc : StopDriver(i) /\ TaskClock(i) /\ UNCHANGED ovars
    \/ ResumeAfterScrape /\ UNCHANGED clock /\ UNCHANGED ovars
    \/ Tick

SpecTimed == InitTimed /\ [][NextTimed]_vars

(***************************************************************************)
(* The deduplication and truncation of gather_data on their own: every     *)
(* list of at most two hit lists, every limit.                             *)
(***************************************************************************)
\* the provider's records (with a URL, with an empty URL, with no href) and
\* the hits perform_search makes of them
RawRecords == {RawHit(u) : u \in Urls \cup {""}} \cup {RawNoHref}

Hits == {Convert(<<r>>)[1] : r \in RawRecords}

HitLists ==
    LET L == SeqsUpTo(Hits, MaxHits)
    IN  {<<>>} \cup {<<a>> : a \in L} \cup {<<a, b>> : a \in L, b \in L}

InitDedup ==
    /\ queries = <<>>
    /\ max_urls \in Limits
    /\ scrape_concurrency = 1
    /\ pc = "dedup"
    /\ NoSearchTasks
    /\ all_results \in HitLists
    /\ unique_urls = <<>> /\ urls_to_scrape = <<>>
    /\ sem_value = 0 /\ sem_waiters = <<>> /\ ready = <<>>
    /\ tpc = <<>> /\ browser = <<>> /\ context = <<>> /\ cleaned_text = <<>> /\ tret = <<>>
    /\ texc = <<>> /\ timed_out = <<>> /\ torder = <<>>
    /\ scrape_future = PendingFuture
    /\ scraped_data = <<>>
    /\ clock = NoClock
    /\ NoMain /\ NoWriter

\* lines 72-84 of gather_data
DedupApply ==
    /\ pc = "dedup"
    /\ unique_urls' = Dedup(all_results)
    /\ urls_to_scrape' = Truncate(Dedup(all_results), max_urls)
    /\ pc' = "deduped"
    /\ UNCHANGED <<args, svars, all_results, semvars, tvars, scraped_data, clock, ovars>>

NextDedup == DedupApply

SpecDedup == InitDedup /\ [][NextDedup]_vars

(***************************************************************************)
(* write_brief.  A text is a sequence of characters; the marker that       *)
(* _format_sources_for_prompt appends counts as one element.               *)
(***************************************************************************)
TruncationMarker == "... [truncated]"

Texts == SeqsUpTo({"c"}, max_chars + 1)

Tiers == {1, 2}

SourceUrls == <<"u1", "u2", "u3", "u4">>

SourceInfo(url, text, tier, status) ==
    [url |-> url, text |-> text, tier |-> tier, status |-> status]

\* every list of at most MaxSources sources, the k-th with the k-th URL
SourceInfoLists ==
    UNION {[1..n -> Texts \X Tiers \X {"success", "error"}] : n \in 0..MaxSources}

AsSourceInfos(l) ==
    [k \in DOMAIN l |-> SourceInfo(SourceUrls[k], l[k][1], l[k][2], l[k][3])]

\* s["status"] == "success" and s["text"]
IsValidSourceAnyText(s) == s.status = "success"

IsValidSource(s) == s.status = "success" /\ s.text # <<>>

\* if len(text) > max_chars: text = text[:max_chars] + "... [truncated]"
FormatText(text, limit) ==
    IF Len(text) > limit
    THEN SubSeq(text, 1, limit) \o <<TruncationMarker>>
    ELSE text

\* _format_sources_for_prompt(sources, max_chars): the parts that are joined
FormatSourcesForPrompt(sources, limit) ==
    IF sources = <<>> THEN NoFormattedSources
    ELSE [empty |-> FALSE,
          parts |-> [i \in 1..Len(sources) |->
                        [number |-> i,
                         url |-> sources[i].url,
                         tier |-> sources[i].tier,
                         text |-> FormatText(sources[i].text, limit)]]]

\* write_brief from its call to the await of client.generate_response
WriteBriefFormat ==
    /\ wpc = "start"
    /\ valid_sources' = SelectSeq(sources_with_tiers, IsValidSource)
    /\ formatted_sources' =
          FormatSourcesForPrompt(SelectSeq(sources_with_tiers, IsValidSource), max_chars)
    /\ wpc' = "llm"
    /\ llm' = "pending"
    /\ UNCHANGED <<brief, mvars, pvars, clock>>

\* except LLMClientError as e: return f"""# Forecast Brief: ... ## Error ..."""
OnLLMClientError == [wpc |-> "returned", brief |-> "error_brief"]

\* await client.generate_response(...) ends with the response, or with
\* LLMClientError (generate_response raises every failure of the API call as
\* LLMClientError); write_brief returns
GenerateResponse ==
    /\ wpc = "llm"
    /\ \E o \in {"ok", "error"} :
        IF o = "ok"
        THEN /\ llm' = "ok"
             /\ wpc' = "returned"
             /\ brief' = "response"
        ELSE /\ llm' = "failed"
             /\ wpc' = OnLLMClientError.wpc
             /\ brief' = OnLLMClientError.brief
    /\ UNCHANGED <<valid_sources, formatted_sources, mvars, pvars, clock>>

\* nothing runs but write_brief
NoGatherData ==
    /\ queries = <<>> /\ max_urls = 0 /\ scrape_concurrency = 1
    /\ pc = "none"
    /\ NoSearchTasks
    /\ NoScrapeStage
    /\ clock = NoClock

\* write_brief is called with any list of sources
InitWriter ==
    /\ NoGatherData
    /\ api_key = "" /\ config_file = "" /\ mpc = "none" /\ called = {}
    /\ sources_with_tiers \in {AsSourceInfos(l) : l \in SourceInfoLists}
    /\ wpc = "start" /\ valid_sources = <<>>
    /\ formatted_sources = NoFormattedSources
    /\ llm = "idle" /\ brief = "none"

NextWriter ==
    \/ WriteBriefFormat
    \/ GenerateResponse

SpecWriter == InitWriter /\ [][NextWriter]_vars

(***************************************************************************)
(* main.  gather_data and the functions of forecasting_logic are single    *)
(* steps here that return or raise; write_brief runs as above.             *)
(***************************************************************************)
ApiKeys == {"", "key"}

\* config.yaml: absent, not YAML, YAML that is no mapping (an empty file
\* loads as None), a mapping
ConfigFiles == {"missing", "invalid_yaml", "not_mapping", "mapping"}

\* load_config(): what it returns or raises
LoadConfigResult(key, file) ==
    IF key = "" THEN "ConfigError"
    ELSE IF file = "missing" THEN "ConfigError"
    ELSE IF file = "invalid_yaml" THEN "ConfigError"
    ELSE IF file = "not_mapping" THEN "AttributeError"
    ELSE "Config"

\* except ConfigError as e: print(...); return
AfterConfigErrorContinue == "plan"
AfterConfigError == "ended"

\* what gather_data can return: one outcome per URL, an error outcome with
\* empty text
GatherResults ==
    LET O == {<<t, "success">> : t \in Texts} \cup {<<<<>>, "error">>}
    IN  {[k \in DOMAIN l |-> ScrapeResult(SourceUrls[k], l[k][1], l[k][2])] :
            l \in UNION {[1..n -> O] : n \in 0..MaxSources}}

MainStep(step, name) ==
    /\ mpc = step
    /\ called' = called \cup {name}

\* Step A: config = load_config(); client = LLMClient(config)
MainLoadConfig ==
    /\ MainStep("load_config", "load_config")
    /\ mpc' = CASE LoadConfigResult(api_key, config_file) = "Config" -> "plan"
                 [] LoadConfigResult(api_key, config_file) = "ConfigError" -> AfterConfigError
                 [] OTHER -> "crashed"
    /\ UNCHANGED <<api_key, config_file, sources_with_tiers, wvars, pvars, clock>>

\* an awaited call of main outside any try: it returns, or main ends with
\* its exception
MainAwait(step, name, next) ==
    /\ MainStep(step, name)
    /\ \E o \in {"ok", "error"} : mpc' = IF o = "ok" THEN next ELSE "crashed"

\* Step B: plan = await generate_search_plan(...)
MainGenerateSearchPlan ==
    /\ MainAwait("plan", "generate_search_plan", "gather")
    /\ UNCHANGED <<api_key, config_file, sources_with_tiers, wvars, pvars, clock>>

\* Step C: scraped_data = await gather_data(...)
MainGatherData ==
    /\ MainStep("gather", "gather_data")
    /\ \/ /\ mpc' = "crashed"
          /\ scraped_data' = scraped_data
       \/ /\ mpc' = "analyze"
          /\ scraped_data' \in GatherResults
    /\ UNCHANGED <<api_key, config_file, sources_with_tiers, wvars, clock>>
    /\ UNCHANGED <<args, pc, svars, dvars, semvars, tvars>>

\* Step D: base_rate_summary = await analyze_base_rates(...)
MainAnalyzeBaseRates ==
    /\ MainAwait("analyze", "analyze_base_rates", "classify")
    /\ UNCHANGED <<api_key, config_file, sources_with_tiers, wvars, pvars, clock>>

\* Step E: the loop that calls classify_source for every outcome
MainClassifySources ==
    /\ MainStep("classify", "classify_source")
    /\ \/ /\ mpc' = "crashed"
          /\ sources_with_tiers' = sources_with_tiers
       \/ /\ mpc' = "write"
          /\ \E tier \in [DOMAIN scraped_data -> Tiers] :
                sources_with_tiers' =
                    [k \in DOMAIN scraped_data |->
                        SourceInfo(scraped_data[k].url, scraped_data[k].text,
                                   tier[k], scraped_data[k].status)]
    /\ UNCHANGED <<api_key, config_file, wvars, pvars, clock>>

\* Step F: brief = await write_brief(...) is called
MainCallWriteBrief ==
    /\ MainStep("write", "write_brief")
    /\ wpc = "idle"
    /\ wpc' = "start"
    /\ mpc' = mpc
    /\ UNCHANGED <<api_key, config_file, sources_with_tiers, pvars, clock>>
    /\ UNCHANGED <<valid_sources, formatted_sources, llm, brief>>

\* Step G: filepath = save_brief(brief, args.question), then main returns
MainSaveBrief ==
    /\ wpc = "returned"
    /\ MainAwait("write", "save_brief", "complete")
    /\ UNCHANGED <<api_key, config_file, sources_with_tiers, wvars, pvars, clock>>

\* main is called: any environment
InitMain ==
    /\ NoGatherData
    /\ api_key \in ApiKeys
    /\ config_file \in ConfigFiles
    /\ mpc = "load_config"
    /\ called = {}
    /\ sources_with_tiers = <<>>
    /\ NoWriter

NextMain ==
    \/ MainLoadConfig
    \/ MainGenerateSearchPlan
    \/ MainGatherData
    \/ MainAnalyzeBaseRates
    \/ MainClassifySources
    \/ MainCallWriteBrief
    \/ WriteBriefFormat
    \/ GenerateResponse
    \/ MainSaveBrief

SpecMain == InitMain /\ [][NextMain]_vars

(***************************************************************************)
(* Properties.                                                             *)
(***************************************************************************)
UrlsOf(hits) == [k \in DOMAIN hits |-> hits[k].url]

\* the places <<query index, hit rank>> where url occurs in all_results
Places(url) ==
    UNION {{<<q, r>> : r \in {x \in DOMAIN all_results[q] : all_results[q][x].url = url}} :
              q \in DOMAIN all_results}

PlaceBefore(a, b) == a[1] < b[1] \/ (a[1] = b[1] /\ a[2] < b[2])

NoRepeats(s) == \A a, b \in DOMAIN s : a # b => s[a] # s[b]

\* C6: the deduplicated sequence has no repeated URL, holds every non-empty
\* URL of the hit lists, and lists them in the order of their first
\* occurrence in the traversal (query order, then hit rank).
C6_DedupFirstSeen ==
    pc = "deduped" =>
        /\ NoRepeats(unique_urls)
        /\ \A u \in Urls : (Places(u) # {}) <=> (u \in Range(unique_urls))
        /\ \A a, b \in DOMAIN unique_urls :
              a < b =>
                \E p \in Places(unique_urls[a]) :
                    \A o \in Places(unique_urls[b]) : PlaceBefore(p, o)

C6_Witness ==
    /\ pc = "deduped"
    /\ Len(all_results) = 2
    /\ UrlsOf(all_results[1]) = <<"u1", "u2">>
    /\ UrlsOf(all_results[2]) = <<"u2", "u3">>
    /\ unique_urls = <<"u1", "u2", "u3">>

IsPrefixOfLength(s, t, n) ==
    /\ Len(s) = n
    /\ n <= Len(t)
    /\ \A k \in 1..n : s[k] = t[k]

MinOf(a, b) == IF a < b THEN a ELSE b

\* C7 as stated: for every integer limit the scrape sequence has length
\* <= limit and is the first limit elements of the first-seen sequence.
C7_Original ==
    pc = "deduped" =>
        /\ Len(urls_to_scrape) <= max_urls
        /\ IsPrefixOfLength(urls_to_scrape, unique_urls,
                            MinOf(max_urls, Len(unique_urls)))

\* C7, amended: for every limit >= 0 the scrape sequence has length <= limit
\* and is the first limit elements of the first-seen sequence; for a limit
\* < 0 it is the first-seen sequence without its last |limit| elements.
C7_TruncationNonNegative ==
    pc = "deduped" =>
        /\ max_urls >= 0 =>
              /\ Len(urls_to_scrape) <= max_urls
              /\ IsPrefixOfLength(urls_to_scrape, unique_urls,
                                  MinOf(max_urls, Len(unique_urls)))
        /\ max_urls < 0 =>
              IsPrefixOfLength(urls_to_scrape, unique_urls,
                  IF Len(unique_urls) + max_urls > 0
                  THEN Len(unique_urls) + max_urls ELSE 0)

C7_Witness ==
    /\ pc = "deduped"
    /\ max_urls = 2
    /\ unique_urls = <<"u1", "u2", "u3">>
    /\ urls_to_scrape = <<"u1", "u2">>

InFlight == {i \in DOMAIN tpc : tpc[i] \in InScrapeUrl}

\* C1: at any instant at most scrape_concurrency calls of scrape_url have
\* started and not yet returned.
C1_ConcurrencyBound == Cardinality(InFlight) <= scrape_concurrency

C1_Witness ==
    /\ pc = "scrape"
    /\ scrape_concurrency = 2
    /\ Cardinality(InFlight) = 2
    /\ sem_waiters = <<3>>

\* C2: the list gather_data returns holds exactly one outcome for every URL
\* of the scrape sequence.
C2_OneOutcomePerUrl ==
    pc = "done" =>
        /\ Len(scraped_data) = Len(urls_to_scrape)
        /\ \A i \in DOMAIN urls_to_scrape :
              Cardinality({k \in DOMAIN scraped_data :
                              scraped_data[k].url = urls_to_scrape[i]}) = 1

C2_Witness ==
    /\ pc = "done"
    /\ Len(urls_to_scrape) = 3
    /\ Len(scraped_data) = 3
    /\ \E a, b \in DOMAIN scraped_data :
          scraped_data[a].status = "success" /\ scraped_data[b].status = "error"

\* C3: the i-th outcome gather_data returns is the outcome of the i-th URL,
\* whatever the order in which the renders completed.
C3_OutcomesInUrlOrder ==
    pc = "done" =>
        \A i \in DOMAIN scraped_data :
            i \in DOMAIN urls_to_scrape /\ scraped_data[i].url = urls_to_scrape[i]

C3_Witness ==
    /\ pc = "done"
    /\ Len(scraped_data) = 3
    /\ torder = <<2, 3, 1>>
    /\ scraped_data[1].status = "error"
    /\ scraped_data[3].status = "success"

\* the search gather has its result and gather_data has not resumed yet
SearchGathered == pc = "search" /\ search_future.state = "result"

PossibleResults(q) == {<<>>, Convert(Provider(q))}

\* C4: the search gather yields one result list per query, the list at
\* index i being what perform_search returned for the query at index i,
\* whatever the completion order and however many provider calls failed.
C4_SearchIndexAligned ==
    /\ SearchGathered =>
          /\ Len(search_future.result) = Len(queries)
          /\ \A i \in DOMAIN queries :
                /\ search_future.result[i] = sret[i]
                /\ search_future.result[i] \in PossibleResults(queries[i])
    /\ pc \in {"scrape", "done"} =>
          /\ Len(all_results) = Len(queries)
          /\ \A i \in DOMAIN queries : all_results[i] \in PossibleResults(queries[i])

C4_Witness ==
    /\ SearchGathered
    /\ queries = <<"A", "B">>
    /\ sorder = <<2, 1>>
    /\ search_future.result = <<Convert(Provider("A")), Convert(Provider("B"))>>

\* C5: a provider failure of one query gives the empty list for that query
\* only; the batch completes and every query that did not fail has the
\* result list the provider gave it.
C5_SearchFailureIsolated ==
    /\ search_future.state # "exception"
    /\ \A i \in DOMAIN spc : spc[i] # "raised"
    /\ SearchGathered =>
          \A i \in DOMAIN queries :
              search_future.result[i] =
                  IF sfailed[i] THEN <<>> ELSE Convert(Provider(queries[i]))

C5_Witness ==
    /\ SearchGathered
    /\ queries = <<"A", "B">>
    /\ sfailed = <<TRUE, FALSE>>
    /\ search_future.result = <<<<>>, Convert(Provider("B"))>>

\* C8 as stated: a render whose navigation or wait timed out returns the
\* error outcome with empty text and does not raise, and is never reported
\* as a success.
C8_TimeoutGivesErrorOutcome ==
    \A i \in DOMAIN tpc :
        timed_out[i] =>
            /\ tpc[i] # "raised"
            /\ tpc[i] = "done" =>
                  tret[i] = ScrapeResult(urls_to_scrape[i], <<>>, "error")
            /\ pc = "done" => scraped_data[i].status # "success"

\* C9 as stated: whatever step of scrape_url fails, no error is raised to
\* the caller of scrape_url.
C9_ScrapeUrlNeverRaises ==
    \A i \in DOMAIN tpc : tpc[i] # "raised"

\* C10 as stated: gather_data never raises; whatever searches and renders
\* fail, it returns a result.
C10_GatherDataNeverRaises ==
    /\ pc # "raised"
    /\ scrape_future.state # "exception"


(***************************************************************************)
(* C11 (as claimed): every outcome returned by scrape_url with status      *)
(* "success" has non-empty text; equivalently, every outcome with empty     *)
(* text has status "error".                                                *)
(***************************************************************************)
Returned == {i \in DOMAIN tpc : tpc[i] = "done"}

C11_Original ==
    \A i \in Returned : tret[i].status = "success" => tret[i].text # <<>>

(***************************************************************************)
(* C11 (amended): every outcome returned by scrape_url with status "error" *)
(* has empty text, and every outcome with status "success" carries the     *)
(* text extracted from the page, which is empty when the page has no       *)
(* visible text.                                                           *)
(***************************************************************************)
C11_ErrorHasEmptyText ==
    \A i \in Returned :
        /\ tret[i].url = urls_to_scrape[i]
        /\ tret[i].status \in {"success", "error"}
        /\ tret[i].status = "error" => tret[i].text = <<>>
        /\ tret[i].status = "success" =>
               \E body_html \in Htmls : tret[i].text = ExtractCleanText(body_html)

C11_Witness ==
    \E i, j \in Returned :
        /\ tret[i].status = "success" /\ tret[i].text = <<>>
        /\ tret[j].status = "error" /\ tret[j].text = <<>>


(***************************************************************************)
(* C12 (as claimed): every browser and browser context opened by a         *)
(* scrape_url call is closed when the call exits, on every exit path.      *)
(***************************************************************************)
Exited == {i \in DOMAIN tpc : tpc[i] \in {"done", "raised"}}

C12_ClosedAtExit ==
    \A i \in Exited :
        /\ browser[i] \in {"none", "closed", "close_failed"}
        /\ context[i] = "open" => browser[i] = "close_failed"
        /\ browser[i] = "none" => context[i] = "none"
        /\ browser[i] = "close_failed" => tpc[i] = "raised"

C12_OwnBrowserOnly ==
    \A i \in DOMAIN tpc :
        (i \in DOMAIN tpc' /\ (browser'[i] # browser[i] \/ context'[i] # context[i]))
            => (tpc[i] \in InScrapeUrl /\ tpc'[i] # tpc[i])

EverySearchCompleted ==
    \/ pc = "start" /\ queries = <<>>
    \/ /\ pc = "search"
       /\ DOMAIN spc = DOMAIN queries
       /\ \A k \in DOMAIN spc : spc[k] = "done"

ScrapeUrlStarts(i) ==
    /\ i \in DOMAIN tpc'
    /\ tpc'[i] = "start_driver"
    /\ (i \in DOMAIN tpc => tpc[i] # "start_driver")

RenderStarted == \E i \in DOMAIN tpc : tpc[i] \notin {"new", "wait", "woken"}

C13_Step ==
    /\ dvars' # dvars => (EverySearchCompleted /\ tpc = <<>>)
    /\ \A i \in DOMAIN tpc' :
          ScrapeUrlStarts(i) =>
              /\ pc \in {"scrape", "raised"}
              /\ unique_urls = Dedup(all_results)
              /\ urls_to_scrape = Truncate(unique_urls, max_urls)
              /\ dvars' = dvars
    /\ RenderStarted => dvars' = dvars

C13_StagesSequenced == [][C13_Step]_vars

C13_Witness ==
    /\ pc = "scrape"
    /\ Len(queries) = 2
    /\ Len(urls_to_scrape) = 3
    /\ tpc[1] = "done" /\ tpc[2] = "goto" /\ tpc[3] = "wait"


(***************************************************************************)
(* C14: forward progress.  For every scrape_concurrency >= 1, if every     *)
(* perform_search and scrape_url call returns (none raises), gather_data   *)
(* eventually returns; and no task waits for a permit forever: from some   *)
(* point on no task is queued on the semaphore or holds an unused permit.  *)
(***************************************************************************)
EveryCallReturns ==
    /\ pc # "raised"
    /\ \A i \in DOMAIN spc : spc[i] # "raised"
    /\ \A i \in DOMAIN tpc : tpc[i] # "raised"

NobodyWaiting ==
    /\ sem_waiters = <<>>
    /\ \A i \in DOMAIN tpc : tpc[i] \notin {"wait", "woken"}

C14_ForwardProgress ==
    <>[](NobodyWaiting /\ (EveryCallReturns => pc = "done"))

C14_Witness ==
    /\ pc = "done"
    /\ scrape_concurrency = 1
    /\ torder = <<1, 2, 3>>
    /\ Len(scraped_data) = 3


(***************************************************************************)
(* C15: a single render never holds its permit for longer than             *)
(* scrape_timeout time units, and the scrape stage ends within             *)
(* ceil(|urls_to_scrape| / scrape_concurrency) * scrape_timeout time units.*)
(***************************************************************************)
Ceil(n, k) == (n + k - 1) \div k

C15_RenderWithinTimeout ==
    /\ \A i \in DOMAIN clock.slot : clock.slot[i] <= scrape_timeout
    /\ clock.stage <= Ceil(Len(urls_to_scrape), scrape_concurrency) * scrape_timeout


(***************************************************************************)
(* C16: when the search stage yields no hit at all (no query, every query  *)
(* failing, or every query answered with no hit), gather_data creates no   *)
(* scrape task and returns the empty list; it does not raise.              *)
(***************************************************************************)
NoHits == \A q \in DOMAIN all_results : all_results[q] = <<>>

C16_NoHitsEmptyResult ==
    (pc \in {"scrape", "done", "raised"} /\ NoHits) =>
        /\ pc = "done"
        /\ urls_to_scrape = <<>>
        /\ tpc = <<>>
        /\ scrape_future.state = "result"
        /\ scraped_data = <<>>

C16_Witness ==
    /\ pc = "done"
    /\ queries = <<"C", "C">>
    /\ all_results = <<<<>>, <<>>>>
    /\ tpc = <<>> /\ scraped_data = <<>>


(***************************************************************************)
(* C17: no retry.  There is one perform_search task per input query and    *)
(* one scrape_with_limit task per URL of urls_to_scrape (whose URLs are    *)
(* distinct); no task is created later, and a task only moves forward      *)
(* through its awaits, so it calls perform_search or scrape_url once and   *)
(* takes each of its steps at most once, whether it succeeds or fails.     *)
(***************************************************************************)
SearchRank(p) ==
    CASE p = "open" -> 1 [] p = "text" -> 2 [] p = "close" -> 3 [] OTHER -> 4

ScrapeRank(p) ==
    CASE p = "new" -> 0
      [] p = "wait" -> 1
      [] p = "woken" -> 2
      [] p = "start_driver" -> 3
      [] p = "launch" -> 4
      [] p = "new_context" -> 5
      [] p = "new_page" -> 6
      [] p = "goto" -> 7
      [] p = "wait_for_load_state" -> 8
      [] p = "content" -> 9
      [] p = "context_close" -> 10
      [] p = "browser_close" -> 11
      [] p = "stop_driver" -> 12
      [] OTHER -> 13

C17_OneTaskEach ==
    /\ pc = "search" => DOMAIN spc = DOMAIN queries
    /\ DOMAIN tpc = DOMAIN urls_to_scrape
    /\ NoRepeats(urls_to_scrape)
    /\ pc = "done" => \A i \in DOMAIN tpc : tpc[i] = "done"

C17_Step ==
    /\ spc # <<>> => (spc' = <<>> \/ DOMAIN spc' = DOMAIN spc)
    /\ tpc # <<>> => DOMAIN tpc' = DOMAIN tpc
    /\ \A i \in DOMAIN spc \cap DOMAIN spc' :
          spc'[i] # spc[i] => SearchRank(spc'[i]) > SearchRank(spc[i])
    /\ \A i \in DOMAIN tpc \cap DOMAIN tpc' :
          /\ tpc'[i] # tpc[i] => ScrapeRank(tpc'[i]) > ScrapeRank(tpc[i])
          /\ tpc[i] \in {"done", "raised"} =>
                (tpc'[i] = tpc[i] /\ tret'[i] = tret[i])

C17_NoRetry == []C17_OneTaskEach /\ [][C17_Step]_vars

C17_Witness ==
    /\ pc = "done"
    /\ queries = <<"B", "A">>
    /\ all_results[1] = <<>>
    /\ Len(tret) = 2
    /\ tret[1].status = "error"
    /\ tret[2].status = "success"


(***************************************************************************)
(* C18: a hit whose URL is the empty string (a provider record with no     *)
(* href becomes one) never appears in the scrape sequence and does not     *)
(* count towards the limit, wherever it occurs: the outcome is that of the *)
(* same hit lists with those hits removed, and for a limit >= 0 its length *)
(* is the smaller of the limit and the number of distinct non-empty URLs.  *)
(***************************************************************************)
WithoutEmptyUrls(lists) ==
    [q \in DOMAIN lists |-> SelectSeq(lists[q], LAMBDA h : h.url # "")]

C18_EmptyUrlDropped ==
    /\ Convert(<<RawNoHref>>)[1].url = ""
    /\ pc = "deduped" =>
          /\ "" \notin Range(unique_urls)
          /\ "" \notin Range(urls_to_scrape)
          /\ unique_urls = Dedup(WithoutEmptyUrls(all_results))
          /\ urls_to_scrape = Truncate(Dedup(WithoutEmptyUrls(all_results)), max_urls)
          /\ max_urls >= 0 =>
                Len(urls_to_scrape) =
                    MinOf(max_urls,
                          Cardinality(Range(Flatten(all_results)) \ {""}))

C18_Witness ==
    /\ pc = "deduped"
    /\ max_urls = 2
    /\ Len(all_results) = 2
    /\ UrlsOf(all_results[1]) = <<"", "u1">>
    /\ UrlsOf(all_results[2]) = <<"", "u2">>
    /\ urls_to_scrape = <<"u1", "u2">>


(***************************************************************************)
(* C19 (as claimed): deduplication is idempotent for every limit: the      *)
(* flatten-deduplicate-truncate step applied to its own output, taken as a *)
(* single hit list, with the same limit, returns the same sequence.        *)
(***************************************************************************)
AsHitList(urls) == [k \in DOMAIN urls |-> SearchResult("t", urls[k], "s")]

Again(urls, limit) == Truncate(Dedup(<<AsHitList(urls)>>), limit)

C19_Original ==
    pc = "deduped" => Again(urls_to_scrape, max_urls) = urls_to_scrape

(***************************************************************************)
(* C19 (amended): the same for every limit >= 0; without truncation        *)
(* (the deduplication alone) it holds always.  With a limit < 0 the slice  *)
(* drops the last |limit| elements each time it is applied.                *)
(***************************************************************************)
C19_IdempotentNonNegative ==
    pc = "deduped" =>
        /\ Dedup(<<AsHitList(unique_urls)>>) = unique_urls
        /\ max_urls >= 0 => Again(urls_to_scrape, max_urls) = urls_to_scrape
        /\ max_urls < 0 =>
              Again(urls_to_scrape, max_urls) =
                  SubSeq(urls_to_scrape, 1, Len(urls_to_scrape) + max_urls)

C19_Witness ==
    /\ pc = "deduped"
    /\ max_urls = 2
    /\ Len(all_results) = 2
    /\ UrlsOf(all_results[1]) = <<"u3", "u3">>
    /\ UrlsOf(all_results[2]) = <<"u1", "u2">>
    /\ urls_to_scrape = <<"u3", "u1">>
    /\ Again(urls_to_scrape, max_urls) = <<"u3", "u1">>


(***************************************************************************)
(* C20: the pool is work-conserving.  Whenever a task is queued on the     *)
(* semaphore, every permit is in use: scrape_concurrency tasks are inside  *)
(* scrape_url or have just been handed a permit and are about to enter it  *)
(* (the loop resumes them in the order they were handed it, and the first  *)
(* of them can always take its step).  The step in which a render ends     *)
(* while tasks are queued hands its permit to the first of them.           *)
(***************************************************************************)
Queued == {i \in DOMAIN tpc : tpc[i] = "wait"}

HandedPermit == {i \in DOMAIN tpc : tpc[i] = "woken"}

C20_AllPermitsInUse ==
    /\ Queued = Range(sem_waiters)
    /\ Queued # {} =>
          Cardinality(InFlight) + Cardinality(HandedPermit) = scrape_concurrency
    /\ HandedPermit = Range(ready)
    /\ ready # <<>> => ENABLED (ResumeTask(Head(ready)) /\ UNCHANGED clock)

C20_HandOver ==
    \A i \in DOMAIN tpc :
        /\ (tpc[i] \in InScrapeUrl /\ tpc'[i] \in {"done", "raised"}
              /\ sem_waiters # <<>>) =>
                 /\ tpc'[Head(sem_waiters)] = "woken"
                 /\ sem_waiters' = Tail(sem_waiters)
        /\ (tpc[i] = "woken" /\ tpc'[i] # "woken") => tpc'[i] = "start_driver"

C20_WorkConserving == []C20_AllPermitsInUse /\ [][C20_HandOver]_vars

C20_Witness ==
    /\ pc = "scrape"
    /\ scrape_concurrency = 1
    /\ tpc = <<"done", "woken", "wait">>
    /\ sem_waiters = <<3>>


(***************************************************************************)
(* C21: the status reflects fetch success, not content success.  When      *)
(* page.goto, page.wait_for_load_state, page.content and context.close     *)
(* have all completed without error, scrape_url returns the outcome with   *)
(* status "success" and the extracted text, also when that text is empty:  *)
(* the step that completes context.close() makes that outcome the value to *)
(* return, and the call then returns it (it does not raise).               *)
(***************************************************************************)
FetchCompleted(i) ==
    /\ tpc[i] \in {"browser_close", "stop_driver"}
    /\ tret[i].status = "success"

C21_Step ==
    \A i \in DOMAIN tpc \cap DOMAIN tpc' :
        /\ (tpc[i] = "context_close" /\ context'[i] = "closed") =>
              tret'[i] = ScrapeResult(urls_to_scrape[i], cleaned_text[i], "success")
        /\ FetchCompleted(i) => (tret'[i] = tret[i] /\ tpc'[i] # "raised")

C21_FetchSuccessReturnsSuccess == [][C21_Step]_vars


(***************************************************************************)
(* C22: write_brief passes to the prompt exactly the sources whose status  *)
(* is "success" and whose text is non-empty, in their original order,      *)
(* numbered 1, 2, ...; an error outcome or an empty text never appears;    *)
(* each text is whole when it has at most max_chars characters, and else   *)
(* its first max_chars characters followed by the truncation marker.       *)
(***************************************************************************)
Usable == {k \in DOMAIN sources_with_tiers :
              /\ sources_with_tiers[k].status = "success"
              /\ sources_with_tiers[k].text # <<>>}

\* the j-th usable source, in the order of the list
NthUsable(j) == CHOOSE k \in Usable : Cardinality({m \in Usable : m <= k}) = j

C22_PromptSources ==
    wpc \in {"llm", "returned"} =>
        /\ formatted_sources.empty = (Usable = {})
        /\ Len(formatted_sources.parts) = Cardinality(Usable)
        /\ Len(valid_sources) = Cardinality(Usable)
        /\ \A j \in DOMAIN formatted_sources.parts :
              LET part == formatted_sources.parts[j]
                  src == sources_with_tiers[NthUsable(j)]
              IN  /\ part.number = j
                  /\ part.url = src.url
                  /\ valid_sources[j] = src
                  /\ Len(src.text) <= max_chars => part.text = src.text
                  /\ Len(src.text) > max_chars =>
                        /\ Len(part.text) = max_chars + 1
                        /\ SubSeq(part.text, 1, max_chars) = SubSeq(src.text, 1, max_chars)
                        /\ part.text[max_chars + 1] = TruncationMarker

C22_Witness ==
    /\ wpc = "llm"
    /\ Len(sources_with_tiers) = 3
    /\ sources_with_tiers[1].status = "error" /\ sources_with_tiers[1].text # <<>>
    /\ sources_with_tiers[2].status = "success" /\ Len(sources_with_tiers[2].text) > max_chars
    /\ sources_with_tiers[3].status = "success" /\ sources_with_tiers[3].text = <<>>
    /\ Len(formatted_sources.parts) = 1
    /\ formatted_sources.parts[1].number = 1
    /\ formatted_sources.parts[1].url = "u2"

(***************************************************************************)
(* C24: write_brief raises LLMClientError to its caller when the LLM call  *)
(* fails.                                                                  *)
(***************************************************************************)
C24_RaisesOnLlmFailure ==
    llm = "failed" => (wpc = "raised" /\ brief = "none")


(***************************************************************************)
(* C23: a configuration failure (no API key, no configuration file, or a   *)
(* file that cannot be loaded) is fatal and surfaces before the pipeline   *)
(* starts: when load_config fails, main calls nothing else (no search      *)
(* plan, no gather_data, no brief written or saved) and ends; an ended run *)
(* takes no further step.                                                  *)
(***************************************************************************)
ConfigFailed == LoadConfigResult(api_key, config_file) # "Config"

RunEnded == mpc \in {"ended", "crashed", "complete"}

C23_NothingAfterConfigFailure ==
    ConfigFailed =>
        /\ mpc \in {"load_config", "ended", "crashed"}
        /\ called \subseteq {"load_config"}
        /\ mpc # "load_config" => called = {"load_config"}
        /\ scraped_data = <<>> /\ sources_with_tiers = <<>>
        /\ wpc = "idle" /\ llm = "idle" /\ brief = "none"

C23_ConfigFailureFatal ==
    []C23_NothingAfterConfigFailure /\ [][~RunEnded]_vars

C23_Witness ==
    /\ api_key = "key"
    /\ config_file = "invalid_yaml"
    /\ mpc = "ended"
    /\ called = {"load_config"}


(***************************************************************************)
(* C25: renders are admitted in input order.  For i < j, the scrape_url    *)
(* call for the j-th URL has not started unless the call for the i-th URL  *)
(* has started, in every reachable state; tasks queue on the semaphore in  *)
(* input order and are handed permits in that order.                       *)
(***************************************************************************)
ScrapeUrlStarted(i) == ScrapeRank(tpc[i]) >= ScrapeRank("start_driver")

IsIncreasing(seq) == \A a, b \in DOMAIN seq : a < b => seq[a] < seq[b]

C25_AdmittedInInputOrder ==
    /\ \A i, j \in DOMAIN tpc :
          (i < j /\ ScrapeUrlStarted(j)) => ScrapeUrlStarted(i)
    /\ IsIncreasing(ready \o sem_waiters)

C25_Witness ==
    /\ scrape_concurrency = 2
    /\ Len(tpc) = 3
    /\ tpc[1] = "goto" /\ tpc[2] \in {"done", "raised"} /\ tpc[3] = "start_driver"
    /\ Len(torder) = 1


(***************************************************************************)
(* C26: semaphore permits are conserved.  As stated: in every state of the *)
(* scrape stage, free permits + renders in flight = scrape_concurrency,    *)
(* and all permits are free once every render has exited.                  *)
(***************************************************************************)
SemaphoreCreated ==
    \/ pc \in {"scrape", "done"}
    \/ pc = "raised" /\ search_future.state # "exception"

AllExited == \A i \in DOMAIN tpc : tpc[i] \in {"done", "raised"}

C26_Original ==
    SemaphoreCreated =>
        /\ sem_value + Cardinality(InFlight) = scrape_concurrency
        /\ AllExited => sem_value = scrape_concurrency

(***************************************************************************)
(* C26, amended: in every state of the scrape stage, free permits +        *)
(* renders in flight + permits handed to a woken waiter that has not yet   *)
(* resumed = scrape_concurrency; every exit of a render, by return or by   *)
(* exception, frees its permit or hands it to a waiter; once every render  *)
(* has exited, all scrape_concurrency permits are free.                    *)
(***************************************************************************)
C26_Conserved ==
    SemaphoreCreated =>
        /\ sem_value >= 0
        /\ sem_value + Cardinality(InFlight) + Cardinality(HandedPermit)
              = scrape_concurrency
        /\ AllExited => sem_value = scrape_concurrency

C26_ReleasedOnExit ==
    \A i \in DOMAIN tpc :
        (tpc[i] \in InScrapeUrl /\ tpc'[i] \in {"done", "raised"}) =>
            \/ sem_value' = sem_value + 1 /\ ready' = ready
            \/ sem_value' = sem_value /\ Len(ready') = Len(ready) + 1

C26_PermitsConserved == []C26_Conserved /\ [][C26_ReleasedOnExit]_vars

C26_Witness ==
    /\ pc = "raised"
    /\ scrape_concurrency = 2
    /\ Len(tpc) = 3
    /\ tpc[1] = "raised" /\ tpc[2] \in InScrapeUrl /\ tpc[3] = "woken"
    /\ sem_value = 0

====
